---- MODULE Spec2Model ----
(***************************************************************************)
(* FCHL season predictor: the schedule scan (data_loader.load_schedule),   *)
(* the roster name parser, the player matcher, the projection engine, the  *)
(* standings aggregator and the roster-builder handlers of app.py.         *)
(*                                                                         *)
(* Python dicts are functions whose DOMAIN is the key set; lists are       *)
(* sequences; None is the string NoneVal, which is no name, cell or key.   *)
(* Real-valued quantities are exact rationals <<numerator, denominator>>.  *)
(***************************************************************************)
EXTENDS Integers, Sequences, FiniteSets, TLC

VARIABLES
    \* --- schedule scan (load_schedule) ---
    row,                    \* the record the for-loop is on (<<>> before the first)
    team_completed,         \* {nhl_abbr: int}
    team_remaining,         \* {nhl_abbr: int}
    goalie_schedule_stats,  \* {goalie_name: {starts, wins, shutouts}}
    seen,                   \* history of the scan: what the rows read so far contained
    \* --- session (app.py) ---
    original_roster,        \* get_original_roster(): the cached roster sheet
    roster,                 \* st.session_state.roster
    player_lookup,          \* st.session_state.player_lookup
    skater_stats,           \* get_skater_stats()
    goalie_stats,           \* get_goalie_stats()
    projections,            \* project_all_players(...) of the current script run
    \* --- pure functions applied to drawn inputs ---
    pc,                     \* "input" until the function has been applied, then "done"
    raw,                    \* parse_player_name: the argument, a sequence of characters
    parsed,                 \* parse_player_name: the returned (position, name)
    current_pts,            \* compute_standings: the baseline {fchl_team: int}
    standings,              \* compute_standings: the returned list
    \* --- the interpreter process and the projection pass run in it ---
    set_order,              \* the order in which this process iterates a set of team ids
    previous                \* the outputs of the pass before the last one (<<>>: none)

sched_vars   == <<row, team_completed, team_remaining, goalie_schedule_stats, seen>>
session_vars == <<original_roster, roster, player_lookup, skater_stats, goalie_stats,
                  projections>>
pure_vars    == <<pc, raw, parsed, current_pts, standings>>
process_vars == <<set_order, previous>>
vars         == <<sched_vars, session_vars, pure_vars, process_vars>>

-----------------------------------------------------------------------------
(* Python idioms *)

NoneVal == "<None>"

EmptyDict == [k \in {} |-> 0]

\* d.get(k, default)
Get(d, k, default) == IF k \in DOMAIN d THEN d[k] ELSE default

\* d[k] = v
Put(d, k, v) == [x \in DOMAIN d \cup {k} |-> IF x = k THEN v ELSE d[x]]

RECURSIVE SumValues(_)
\* sum(d.values())
SumValues(d) ==
    IF DOMAIN d = {} THEN 0
    ELSE LET k == CHOOSE x \in DOMAIN d : TRUE
         IN  d[k] + SumValues([x \in DOMAIN d \ {k} |-> d[x]])

-----------------------------------------------------------------------------
(* float arithmetic, as exact rationals in lowest terms with a positive          *)
(* denominator; a division by zero raises ZeroDivisionError, which is carried as *)
(* the value with denominator 0 through every later operation                    *)

ZeroDivisionError == <<1, 0>>

RECURSIVE GCD(_, _)
GCD(a, b) == IF b = 0 THEN a ELSE GCD(b, a % b)

Rat(n, d) ==
    LET g == GCD(IF n < 0 THEN -n ELSE n, d)
    IN  IF d = 0 THEN ZeroDivisionError
        ELSE IF n = 0 THEN <<0, 1>> ELSE <<n \div g, d \div g>>

FromInt(k) == <<k, 1>>
RZero      == <<0, 1>>
RAdd(x, y) == Rat(x[1] * y[2] + y[1] * x[2], x[2] * y[2])
RMul(x, y) == Rat(x[1] * y[1], x[2] * y[2])
\* x / y for y >= 0
RDiv(x, y) == Rat(x[1] * y[2], x[2] * y[1])
RLeq(x, y) == x[1] * y[2] <= y[1] * x[2]
RLess(x, y) == x[1] * y[2] < y[1] * x[2]

-----------------------------------------------------------------------------
(* data_loader.py: constants *)

NHL_TEAM_MAP ==
    [n \in {"Anaheim Ducks", "Boston Bruins", "Buffalo Sabres", "Calgary Flames",
            "Carolina Hurricanes", "Chicago Blackhawks", "Colorado Avalanche",
            "Columbus Blue Jackets", "Dallas Stars", "Detroit Red Wings",
            "Edmonton Oilers", "Florida Panthers", "Los Angeles Kings",
            "Minnesota Wild", "Montreal Canadiens", "Nashville Predators",
            "New Jersey Devils", "New York Islanders", "New York Rangers",
            "Ottawa Senators", "Philadelphia Flyers", "Pittsburgh Penguins",
            "San Jose Sharks", "Seattle Kraken", "St. Louis Blues",
            "Tampa Bay Lightning", "Toronto Maple Leafs", "Utah Mammoth",
            "Vancouver Canucks", "Vegas Golden Knights", "Washington Capitals",
            "Winnipeg Jets"} |->
        CASE n = "Anaheim Ducks" -> "ANA"        [] n = "Boston Bruins" -> "BOS"
          [] n = "Buffalo Sabres" -> "BUF"       [] n = "Calgary Flames" -> "CGY"
          [] n = "Carolina Hurricanes" -> "CAR"  [] n = "Chicago Blackhawks" -> "CHI"
          [] n = "Colorado Avalanche" -> "COL"   [] n = "Columbus Blue Jackets" -> "CBJ"
          [] n = "Dallas Stars" -> "DAL"         [] n = "Detroit Red Wings" -> "DET"
          [] n = "Edmonton Oilers" -> "EDM"      [] n = "Florida Panthers" -> "FLA"
          [] n = "Los Angeles Kings" -> "LAK"    [] n = "Minnesota Wild" -> "MIN"
          [] n = "Montreal Canadiens" -> "MTL"   [] n = "Nashville Predators" -> "NSH"
          [] n = "New Jersey Devils" -> "NJD"    [] n = "New York Islanders" -> "NYI"
          [] n = "New York Rangers" -> "NYR"     [] n = "Ottawa Senators" -> "OTT"
          [] n = "Philadelphia Flyers" -> "PHI"  [] n = "Pittsburgh Penguins" -> "PIT"
          [] n = "San Jose Sharks" -> "SJS"      [] n = "Seattle Kraken" -> "SEA"
          [] n = "St. Louis Blues" -> "STL"      [] n = "Tampa Bay Lightning" -> "TBL"
          [] n = "Toronto Maple Leafs" -> "TOR"  [] n = "Utah Mammoth" -> "UTA"
          [] n = "Vancouver Canucks" -> "VAN"    [] n = "Vegas Golden Knights" -> "VGK"
          [] n = "Washington Capitals" -> "WSH"  [] n = "Winnipeg Jets" -> "WPG"]

FCHL_TEAMS == <<"BOT", "GVR", "LPT", "MAC", "SRL", "ZSK">>

-----------------------------------------------------------------------------
(* data_loader.py: parse_player_name                                       *)
(*                                                                         *)
(* A str is a sequence of one-character strings.  The characters drawn     *)
(* stand for their classes: whitespace, an uppercase letter, a lowercase   *)
(* letter, a decimal digit.                                                *)

IsSpace(c) == c = " "
IsDigit(c) == c \in {"7"}
IsUpper(c) == c \in {"A"}
IsAlpha(c) == c \in {"A", "a"}

RECURSIVE SplitFrom(_, _, _)
\* the scan of str.split(): `word` is the token being read, `done` the tokens read
SplitFrom(s, word, done) ==
    IF s = <<>>
    THEN IF word = <<>> THEN done ELSE Append(done, word)
    ELSE IF IsSpace(Head(s))
         THEN SplitFrom(Tail(s), <<>>, IF word = <<>> THEN done ELSE Append(done, word))
         ELSE SplitFrom(Tail(s), Append(word, Head(s)), done)

\* raw.strip().split(): the maximal runs of non-whitespace characters
Split(s) == SplitFrom(s, <<>>, <<>>)

RECURSIVE Join(_)
\* " ".join(parts)
Join(parts) ==
    IF parts = <<>> THEN <<>>
    ELSE IF Len(parts) = 1 THEN parts[1]
    ELSE parts[1] \o <<" ">> \o Join(Tail(parts))

\* suffix.isdigit() or (len(suffix) == 1 and suffix.isalpha() and suffix.isupper())
is_suffix(suffix) ==
    \/ (suffix # <<>> /\ \A i \in 1..Len(suffix) : IsDigit(suffix[i]))
    \/ (Len(suffix) = 1 /\ IsAlpha(suffix[1]) /\ IsUpper(suffix[1]))

name_parts_NoGuard(parts) ==
    IF is_suffix(parts[Len(parts)])
    THEN SubSeq(parts, 2, Len(parts) - 1)
    ELSE SubSeq(parts, 2, Len(parts))

\* parts[1:-1] if (is_suffix and len(parts) > 2) else parts[1:]
name_parts(parts) ==
    IF is_suffix(parts[Len(parts)]) /\ Len(parts) > 2
    THEN SubSeq(parts, 2, Len(parts) - 1)
    ELSE SubSeq(parts, 2, Len(parts))

\* parse_player_name(raw): (position, name); "" is the empty sequence
parse_player_name(r) ==
    LET parts == Split(r)
    IN  IF Len(parts) < 2 THEN << <<>>, r >>
        ELSE << parts[1], Join(name_parts(parts)) >>

-----------------------------------------------------------------------------
(* data_loader.py: load_schedule                                           *)
(*                                                                         *)
(* A record is the csv.reader row: a tuple of cells, read by position.     *)
(* Python's row[i] is row[i+1] here.  Cells are drawn already stripped.    *)

\* whether int(cell) returns (it raises ValueError on a blank or non-numeric cell)
IsInt(cell) == cell \in {"0", "1", "2"}

\* int(cell), for a cell it accepts
ParseInt(cell) ==
    CASE cell = "0" -> 0
      [] cell = "1" -> 1
      [] cell = "2" -> 2

\* team_x[abbr] = team_x.get(abbr, 0) + 1, under `if abbr:`
CountTeam(counts, abbr) ==
    IF abbr # NoneVal THEN Put(counts, abbr, Get(counts, abbr, 0) + 1) ELSE counts

\* _goalie_entry(name): the tally map with name's entry created on first touch
goalie_entry(gs, name) ==
    IF name \notin DOMAIN gs
    THEN Put(gs, name, [starts |-> 0, wins |-> 0, shutouts |-> 0])
    ELSE gs

\* _goalie_entry(name)["starts"] += 1
AddStart(gs, name) ==
    LET g == goalie_entry(gs, name) IN [g EXCEPT ![name].starts = @ + 1]

\* _goalie_entry(name)["wins"] += 1
AddWin(gs, name) ==
    LET g == goalie_entry(gs, name) IN [g EXCEPT ![name].wins = @ + 1]

\* _goalie_entry(name)["shutouts"] += 1
AddShutout(gs, name) ==
    LET g == goalie_entry(gs, name) IN [g EXCEPT ![name].shutouts = @ + 1]

CreditStarts_VisitorOnly(gs, visitor_goalie, home_goalie) ==
    IF visitor_goalie # "" THEN AddStart(gs, visitor_goalie) ELSE gs

\* "Goalie starts": one per named starting goalie
CreditStarts(gs, visitor_goalie, home_goalie) ==
    LET g1 == IF visitor_goalie # "" THEN AddStart(gs, visitor_goalie) ELSE gs
    IN  IF home_goalie # "" THEN AddStart(g1, home_goalie) ELSE g1

\* "Wins": only when both goalies are named; the visitor's on v > h, else the home's
CreditWin(gs, visitor_goalie, home_goalie, v_score, h_score) ==
    IF visitor_goalie # "" /\ home_goalie # ""
    THEN IF v_score > h_score THEN AddWin(gs, visitor_goalie)
                              ELSE AddWin(gs, home_goalie)
    ELSE gs

\* "Shutouts": the home goalie's when the visitor scored 0, and the other way round
CreditShutouts(gs, visitor_goalie, home_goalie, v_score, h_score) ==
    LET g1 == IF home_goalie # "" /\ v_score = 0 THEN AddShutout(gs, home_goalie) ELSE gs
    IN  IF visitor_goalie # "" /\ h_score = 0 THEN AddShutout(g1, visitor_goalie) ELSE g1

TallyGoalies_StartsBeforeParse(acc, r) ==
    LET visitor_goalie == IF Len(r) > 8 THEN r[9] ELSE ""
        home_goalie    == IF Len(r) > 9 THEN r[10] ELSE ""
        started == [acc EXCEPT !.goalie_schedule_stats =
                                   CreditStarts(@, visitor_goalie, home_goalie)]
    IN
    IF ~IsInt(r[5]) \/ ~IsInt(r[7])
    THEN started
    ELSE
      LET v_score == ParseInt(r[5])
          h_score == ParseInt(r[7])
      IN  [started EXCEPT !.goalie_schedule_stats =
               CreditShutouts(
                   CreditWin(@, visitor_goalie, home_goalie, v_score, h_score),
                   visitor_goalie, home_goalie, v_score, h_score)]

\* The goalie part of a completed record: nothing when a score does not parse
TallyGoalies(acc, r) ==
    LET visitor_goalie == IF Len(r) > 8 THEN r[9] ELSE ""
        home_goalie    == IF Len(r) > 9 THEN r[10] ELSE ""
    IN
    IF ~IsInt(r[5]) \/ ~IsInt(r[7])
    THEN acc          \* except (ValueError, IndexError): continue
    ELSE
      LET v_score == ParseInt(r[5])
          h_score == ParseInt(r[7])
      IN  [acc EXCEPT !.goalie_schedule_stats =
               CreditShutouts(
                   CreditWin(CreditStarts(@, visitor_goalie, home_goalie),
                             visitor_goalie, home_goalie, v_score, h_score),
                   visitor_goalie, home_goalie, v_score, h_score)]

\* One iteration of `for row in reader`, on the three accumulators
ScanRow(acc, r) ==
    IF Len(r) < 8 THEN acc
    ELSE
      LET visitor_full == r[4]
          home_full    == r[6]
          status       == r[8]
          visitor_abbr == Get(NHL_TEAM_MAP, visitor_full, NoneVal)
          home_abbr    == Get(NHL_TEAM_MAP, home_full, NoneVal)
      IN
      IF status = "Scheduled"
      THEN [acc EXCEPT !.team_remaining =
                           CountTeam(CountTeam(@, visitor_abbr), home_abbr)]
      ELSE TallyGoalies(
               [acc EXCEPT !.team_completed =
                               CountTeam(CountTeam(@, visitor_abbr), home_abbr)], r)

NoSchedule ==
    [team_completed |-> EmptyDict, team_remaining |-> EmptyDict,
     goalie_schedule_stats |-> EmptyDict]

RECURSIVE ScanRows(_, _)
ScanRows(acc, rows) ==
    IF rows = <<>> THEN acc ELSE ScanRows(ScanRow(acc, Head(rows)), Tail(rows))

\* load_schedule(path), on the rows below the header
load_schedule(rows) == ScanRows(NoSchedule, rows)

-----------------------------------------------------------------------------
(* data_loader.py: fuzzy_match_name and build_player_lookup                *)
(*                                                                         *)
(* A player name is a str key; NameChars spells it for the scorer.         *)
(* process.extractOne(query, candidates, scorer=fuzz.token_sort_ratio)     *)
(* lowercases both strings, sorts their tokens, and scores the two joined  *)
(* strings by 100 * 2 * LCS / (len1 + len2), rounded; it returns the first *)
(* candidate with the highest score.                                       *)

NameChars(name) ==
    CASE name = "al bo" -> <<"a", "l", " ", "b", "o">>
      [] name = "Bo Al" -> <<"B", "o", " ", "A", "l">>
      [] name = "al bu" -> <<"a", "l", " ", "b", "u">>
      [] name = "cy"    -> <<"c", "y">>

\* the order of the rows of skaters.csv and goalies.csv, which is the order of
\* list(stats.keys())
CsvOrder == <<"al bo", "Bo Al", "al bu", "cy">>

CharCode(c) ==
    CASE c = " " -> 32 [] c = "A" -> 65 [] c = "B" -> 66
      [] c = "a" -> 97 [] c = "b" -> 98 [] c = "c" -> 99 [] c = "l" -> 108
      [] c = "o" -> 111 [] c = "u" -> 117 [] c = "y" -> 121

\* str.lower(), character by character
Lower(c) == CASE c = "A" -> "a" [] c = "B" -> "b" [] OTHER -> c

\* utils.full_process on a name of letters and blanks
full_process(str) == [i \in 1..Len(str) |-> Lower(str[i])]

RECURSIVE StrLess(_, _)
\* a < b on str
StrLess(a, b) ==
    IF b = <<>> THEN FALSE
    ELSE IF a = <<>> THEN TRUE
    ELSE IF Head(a) # Head(b) THEN CharCode(Head(a)) < CharCode(Head(b))
    ELSE StrLess(Tail(a), Tail(b))

RECURSIVE SortTokens(_)
\* sorted(tokens)
SortTokens(tokens) ==
    IF tokens = <<>> THEN <<>>
    ELSE LET done == SortTokens(SubSeq(tokens, 1, Len(tokens) - 1))
             x    == tokens[Len(tokens)]
             k    == Cardinality({i \in 1..Len(done) : ~StrLess(x, done[i])})
         IN  SubSeq(done, 1, k) \o <<x>> \o SubSeq(done, k + 1, Len(done))

RECURSIVE LCS(_, _)
\* the length of the longest common subsequence
LCS(a, b) ==
    IF a = <<>> \/ b = <<>> THEN 0
    ELSE IF Head(a) = Head(b) THEN 1 + LCS(Tail(a), Tail(b))
    ELSE LET x == LCS(Tail(a), b)
             y == LCS(a, Tail(b))
         IN  IF x >= y THEN x ELSE y

\* fuzz.ratio: the normalized indel similarity as an integer 0..100
ratio(a, b) ==
    IF Len(a) + Len(b) = 0 THEN 100
    ELSE (2 * 200 * LCS(a, b) + (Len(a) + Len(b))) \div (2 * (Len(a) + Len(b)))

\* fuzz.token_sort_ratio(s1, s2)
token_sort_ratio(s1, s2) ==
    ratio(Join(SortTokens(Split(full_process(s1)))),
          Join(SortTokens(Split(full_process(s2)))))

\* list(stats.keys())
KeyList(stats) == SelectSeq(CsvOrder, LAMBDA n : n \in DOMAIN stats)

\* process.extractOne: <<choice, score>> of the first best-scoring candidate
extractOne(query, candidates) ==
    LET score(i) == token_sort_ratio(NameChars(query), NameChars(candidates[i]))
        best == CHOOSE i \in 1..Len(candidates) :
                    /\ \A j \in 1..Len(candidates) : score(j) <= score(i)
                    /\ \A j \in 1..(i - 1) : score(j) < score(i)
    IN  <<candidates[best], score(best)>>

score_cutoff == 80

\* fuzzy_match_name(query, candidates): the matched string or None
fuzzy_match_name(query, candidates) ==
    IF candidates = <<>> THEN NoneVal
    ELSE LET result == extractOne(query, candidates)
         IN  IF result[2] >= score_cutoff THEN result[1] ELSE NoneVal

\* the stats dict for a position: goalie_stats for "G", skater_stats otherwise
Pool(position, skaters, goalies) == IF position = "G" THEN goalies ELSE skaters

\* the value build_player_lookup stores for one player: the name itself when it is a
\* key of the pool, else the fuzzy match
match_player(player, skaters, goalies) ==
    LET pool == Pool(player.position, skaters, goalies)
    IN  IF player.name \in DOMAIN pool THEN player.name
        ELSE fuzzy_match_name(player.name, KeyList(pool))

RECURSIVE build_player_lookup(_, _, _)
\* build_player_lookup(fchl_roster, skater_stats, goalie_stats)
build_player_lookup(fchl_roster, skaters, goalies) ==
    IF fchl_roster = <<>> THEN EmptyDict
    ELSE LET lookup == build_player_lookup(
                           SubSeq(fchl_roster, 1, Len(fchl_roster) - 1), skaters, goalies)
             player == fchl_roster[Len(fchl_roster)]
         IN  IF player.name \in DOMAIN lookup THEN lookup      \* continue
             ELSE Put(lookup, player.name, match_player(player, skaters, goalies))

-----------------------------------------------------------------------------
(* projections.py: scoring weights and per-player projections *)

GOAL_PTS    == 1
ASSIST_PTS  == 1
WIN_PTS     == 2
SHUTOUT_PTS == 3

\* the `base` dict of project_skater and project_goalie
BaseProjection(player) ==
    [name |-> player.name, position |-> player.position, fchl_team |-> player.fchl_team,
     nhl_team |-> "", proj_goals |-> RZero, proj_assists |-> RZero,
     proj_wins |-> RZero, proj_shutouts |-> RZero, proj_pts |-> RZero,
     found_in_stats |-> FALSE]

ZeroGamesSkater_NotFound(base, s) == [base EXCEPT !.nhl_team = s.nhl_team]

\* the return under `if gp <= 0:`
ZeroGamesSkater(base, s) ==
    [base EXCEPT !.nhl_team = s.nhl_team, !.found_in_stats = TRUE]

\* project_skater(player, stats_key, skater_stats, team_remaining)
project_skater(player, stats_key, skaters, remaining_of) ==
    LET base == BaseProjection(player)
    IN  IF stats_key = NoneVal \/ stats_key \notin DOMAIN skaters THEN base
        ELSE
          LET s  == skaters[stats_key]
              gp == s.games_played
          IN  IF gp <= 0 THEN ZeroGamesSkater(base, s)
              ELSE
                LET remaining    == Get(remaining_of, s.nhl_team, 0)
                    gpg          == RDiv(FromInt(s.goals), FromInt(gp))
                    apg          == RDiv(FromInt(s.primary_assists + s.secondary_assists),
                                         FromInt(gp))
                    proj_goals   == RMul(gpg, FromInt(remaining))
                    proj_assists == RMul(apg, FromInt(remaining))
                    proj_pts     == RAdd(RMul(proj_goals, FromInt(GOAL_PTS)),
                                         RMul(proj_assists, FromInt(ASSIST_PTS)))
                IN  [base EXCEPT !.nhl_team = s.nhl_team,
                                 !.proj_goals = proj_goals,
                                 !.proj_assists = proj_assists,
                                 !.proj_pts = proj_pts,
                                 !.found_in_stats = TRUE]

GoalieTally_KeyOnly(player, stats_key, tallies) ==
    Get(tallies, stats_key, [starts |-> 0, wins |-> 0, shutouts |-> 0])

\* goalie_schedule_stats.get(stats_key) or goalie_schedule_stats.get(player["name"], {}),
\* with the .get(field, 0) defaults of an empty dict
GoalieTally(player, stats_key, tallies) ==
    IF stats_key \in DOMAIN tallies THEN tallies[stats_key]
    ELSE Get(tallies, player.name, [starts |-> 0, wins |-> 0, shutouts |-> 0])

ZeroGuardGoalie_StartsOnly(starts, team_comp) == starts = 0

\* if starts == 0 or team_comp == 0:
ZeroGuardGoalie(starts, team_comp) == starts = 0 \/ team_comp = 0

\* project_goalie(player, stats_key, goalie_stats, goalie_schedule_stats,
\*                team_completed, team_remaining)
project_goalie(player, stats_key, goalies, tallies, completed_of, remaining_of) ==
    LET base == BaseProjection(player)
    IN  IF stats_key = NoneVal \/ stats_key \notin DOMAIN goalies THEN base
        ELSE
          LET g         == goalies[stats_key]
              nhl_team  == g.nhl_team
              sched     == GoalieTally(player, stats_key, tallies)
              starts    == sched.starts
              wins      == sched.wins
              shutouts  == sched.shutouts
              team_comp == Get(completed_of, nhl_team, 0)
              team_rem  == Get(remaining_of, nhl_team, 0)
              found     == [base EXCEPT !.nhl_team = nhl_team, !.found_in_stats = TRUE]
          IN  IF ZeroGuardGoalie(starts, team_comp) THEN found
              ELSE
                LET win_rate         == RDiv(FromInt(wins), FromInt(starts))
                    shutout_rate     == RDiv(FromInt(shutouts), FromInt(starts))
                    remaining_starts == RMul(RDiv(FromInt(starts), FromInt(team_comp)),
                                             FromInt(team_rem))
                    proj_wins        == RMul(win_rate, remaining_starts)
                    proj_shutouts    == RMul(shutout_rate, remaining_starts)
                    proj_pts         == RAdd(RMul(proj_wins, FromInt(WIN_PTS)),
                                             RMul(proj_shutouts, FromInt(SHUTOUT_PTS)))
                IN  [found EXCEPT !.proj_wins = proj_wins,
                                  !.proj_shutouts = proj_shutouts,
                                  !.proj_pts = proj_pts]

\* project_all_players(fchl_roster, player_lookup, skater_stats, goalie_stats,
\*                     schedule_data)
project_all_players(fchl_roster, lookup, skaters, goalies, schedule_data) ==
    [i \in 1..Len(fchl_roster) |->
        LET player    == fchl_roster[i]
            stats_key == Get(lookup, player.name, NoneVal)
        IN  IF player.position = "G"
            THEN project_goalie(player, stats_key, goalies,
                                schedule_data.goalie_schedule_stats,
                                schedule_data.team_completed,
                                schedule_data.team_remaining)
            ELSE project_skater(player, stats_key, skaters,
                                schedule_data.team_remaining)]

-----------------------------------------------------------------------------
(* projections.py: compute_standings *)

RECURSIVE team_proj(_)
\* team_proj[team] = team_proj.get(team, 0.0) + proj["proj_pts"], over the list
team_proj(projs) ==
    IF projs = <<>> THEN EmptyDict
    ELSE LET before == team_proj(SubSeq(projs, 1, Len(projs) - 1))
             proj   == projs[Len(projs)]
             team   == proj.fchl_team
         IN  Put(before, team, RAdd(Get(before, team, RZero), proj.proj_pts))

all_teams_ProjectedOnly(projs, baseline) == DOMAIN team_proj(projs)

\* set(list(team_proj.keys()) + list(current_pts.keys()))
all_teams(projs, baseline) == DOMAIN team_proj(projs) \cup DOMAIN baseline

\* the orders in which `for team in all_teams` may visit a set: the iteration order
\* of a set of str depends on the process's hash seed
IterationOrders(S) ==
    {o \in [1..Cardinality(S) -> S] : \A i, j \in 1..Cardinality(S) : i # j => o[i] # o[j]}

\* the standing appended for one team
TeamStanding(team, projs, baseline) ==
    LET cur == Get(baseline, team, 0)
        rem == Get(team_proj(projs), team, RZero)
    IN  [fchl_team |-> team, current_pts |-> cur, proj_remaining |-> rem,
         proj_total |-> RAdd(FromInt(cur), rem)]

\* where list.sort(key=proj_total, reverse=True) leaves x among the sorted list done:
\* after every element whose key is not smaller (the sort is stable)
InsertDesc(done, x) ==
    LET ahead == {i \in 1..Len(done) : RLeq(x.proj_total, done[i].proj_total)}
        k     == IF ahead = {} THEN 0 ELSE CHOOSE i \in ahead : \A j \in ahead : j <= i
    IN  SubSeq(done, 1, k) \o <<x>> \o SubSeq(done, k + 1, Len(done))

SortDesc_Unsorted(list) == list

RECURSIVE SortDesc(_)
\* standings.sort(key=lambda x: x["proj_total"], reverse=True)
SortDesc(list) ==
    IF list = <<>> THEN <<>>
    ELSE InsertDesc(SortDesc(SubSeq(list, 1, Len(list) - 1)), list[Len(list)])

\* compute_standings(projections, current_pts), the set visited in `order`
compute_standings(projs, baseline, order) ==
    SortDesc([i \in 1..Len(order) |-> TeamStanding(order[i], projs, baseline)])

-----------------------------------------------------------------------------
(* The schedule scan as a state machine: one step reads one record.        *)

MaxRows == 2

TeamPairs ==
    {<<"Boston Bruins", "Buffalo Sabres">>, <<"Boston Bruins", "Hartford Whalers">>,
     <<"Hartford Whalers", "Buffalo Sabres">>, <<"Hartford Whalers", "Quebec Nordiques">>}

ScorePairs ==
    {<<"1", "0">>, <<"0", "1">>, <<"2", "1">>, <<"1", "1">>, <<"1", "">>}

GoalieNames == {"al bo", "Bo Al"}

GoaliePairs ==
    {<<"", "">>, <<"al bo", "">>, <<"", "Bo Al">>, <<"al bo", "Bo Al">>,
     <<"al bo", "al bo">>}

\* Date, Start Time (Sask), Start Time (ET), Visitor, Score, Home, Score, Status,
\* Visitor Goalie, Home Goalie
MakeRow(teams, scores, status, goalies) ==
    <<"2026-01-01", "17:00", "19:00", teams[1], scores[1], teams[2], scores[2],
      status, goalies[1], goalies[2]>>

CompletedRows ==
    {MakeRow(t, s, "Regulation", g) : t \in TeamPairs, s \in ScorePairs, g \in GoaliePairs}

ScheduledRows == {MakeRow(t, <<"", "">>, "Scheduled", <<"", "">>) : t \in TeamPairs}

\* records cut short of the goalie columns (8, 9 cells) or of the status column (7)
TruncatedRows ==
    {SubSeq(MakeRow(<<"Boston Bruins", "Buffalo Sabres">>, <<"2", "1">>, "Regulation",
                    <<"al bo", "Bo Al">>), 1, k) : k \in 7..9}

Rows == CompletedRows \cup ScheduledRows \cup TruncatedRows

\* What a record says, read off its cells alone (the scan's history variable)
HasStatus(r)      == Len(r) >= 8
IsScheduled(r)    == HasStatus(r) /\ r[8] = "Scheduled"
IsCompleted(r)    == HasStatus(r) /\ r[8] # "Scheduled"
Recognized(cell)  == cell \in DOMAIN NHL_TEAM_MAP
BothRecognized(r) == Recognized(r[4]) /\ Recognized(r[6])
ScoresParse(r)    == IsInt(r[5]) /\ IsInt(r[7])
VisitorGoalie(r)  == IF Len(r) >= 9 THEN r[9] ELSE ""
HomeGoalie(r)     == IF Len(r) >= 10 THEN r[10] ELSE ""
Slots(r, g)       == (IF VisitorGoalie(r) = g THEN 1 ELSE 0)
                   + (IF HomeGoalie(r) = g THEN 1 ELSE 0)

NothingSeen ==
    [rows |-> 0, completed_both |-> 0, scheduled_both |-> 0,
     slots |-> [g \in GoalieNames |-> 0],
     parsed_slots |-> [g \in GoalieNames |-> 0]]

Observe(h, r) ==
    [rows |-> h.rows + 1,
     completed_both |-> h.completed_both
                        + (IF IsCompleted(r) /\ BothRecognized(r) THEN 1 ELSE 0),
     scheduled_both |-> h.scheduled_both
                        + (IF IsScheduled(r) /\ BothRecognized(r) THEN 1 ELSE 0),
     slots |-> [g \in GoalieNames |->
                  h.slots[g] + (IF IsCompleted(r) THEN Slots(r, g) ELSE 0)],
     parsed_slots |-> [g \in GoalieNames |->
                  h.parsed_slots[g]
                  + (IF IsCompleted(r) /\ ScoresParse(r) THEN Slots(r, g) ELSE 0)]]

IdleSession ==
    /\ original_roster = <<>>
    /\ roster = <<>>
    /\ player_lookup = EmptyDict
    /\ skater_stats = EmptyDict
    /\ goalie_stats = EmptyDict
    /\ projections = <<>>

IdlePure ==
    /\ pc = "input"
    /\ raw = <<>>
    /\ parsed = <<>>
    /\ current_pts = EmptyDict
    /\ standings = <<>>

IdleProcess ==
    /\ set_order = <<>>
    /\ previous = <<>>

IdleSchedule ==
    /\ row = <<>>
    /\ team_completed = EmptyDict
    /\ team_remaining = EmptyDict
    /\ goalie_schedule_stats = EmptyDict
    /\ seen = NothingSeen

InitSchedule ==
    /\ row = <<>>
    /\ team_completed = EmptyDict
    /\ team_remaining = EmptyDict
    /\ goalie_schedule_stats = EmptyDict
    /\ seen = NothingSeen
    /\ IdleSession
    /\ IdlePure
    /\ IdleProcess

ReadRow ==
    /\ seen.rows < MaxRows
    /\ \E r \in Rows :
         LET acc == ScanRow([team_completed |-> team_completed,
                             team_remaining |-> team_remaining,
                             goalie_schedule_stats |-> goalie_schedule_stats], r)
         IN  /\ row' = r
             /\ team_completed' = acc.team_completed
             /\ team_remaining' = acc.team_remaining
             /\ goalie_schedule_stats' = acc.goalie_schedule_stats
             /\ seen' = Observe(seen, r)
    /\ UNCHANGED <<session_vars, pure_vars, process_vars>>

NextSchedule == ReadRow

SpecSchedule == InitSchedule /\ [][NextSchedule]_vars

-----------------------------------------------------------------------------
(* Properties of the schedule scan *)

NoTally == [starts |-> 0, wins |-> 0, shutouts |-> 0]
Abbrs   == {NHL_TEAM_MAP[n] : n \in DOMAIN NHL_TEAM_MAP}
Sides(r, abbr) == (IF Get(NHL_TEAM_MAP, r[4], NoneVal) = abbr THEN 1 ELSE 0)
                + (IF Get(NHL_TEAM_MAP, r[6], NoneVal) = abbr THEN 1 ELSE 0)

\* C4: the completed counts of all teams add up to twice the number of completed
\* records with a recognized team on both sides, and the remaining counts to twice
\* the number of Scheduled records with a recognized team on both sides.
C4_CountsAreTwiceTheGames ==
    /\ SumValues(team_completed) = 2 * seen.completed_both
    /\ SumValues(team_remaining) = 2 * seen.scheduled_both

\* C5 as stated: a goalie named as a starting goalie k times in completed records
\* has starts = k, and wins <= starts for every tally.
C5_StartsEqualCompletedGames ==
    /\ \A g \in GoalieNames :
          seen.slots[g] > 0 =>
              Get(goalie_schedule_stats, g, NoTally).starts = seen.slots[g]
    /\ \A g \in DOMAIN goalie_schedule_stats :
          goalie_schedule_stats[g].wins <= goalie_schedule_stats[g].starts

\* C5 as amended: a goalie's starts equal the number of starting-goalie cells
\* (visitor and home counted separately) that name the goalie in completed records
\* whose two scores both parse; a goalie has a tally only then; wins <= starts.
C5_StartsEqualParsedSlots ==
    /\ \A g \in GoalieNames :
          /\ Get(goalie_schedule_stats, g, NoTally).starts = seen.parsed_slots[g]
          /\ g \in DOMAIN goalie_schedule_stats <=> seen.parsed_slots[g] > 0
    /\ DOMAIN goalie_schedule_stats \subseteq GoalieNames
    /\ \A g \in DOMAIN goalie_schedule_stats :
          goalie_schedule_stats[g].wins <= goalie_schedule_stats[g].starts

\* C5 witness: a goalie named in two completed records, one of them with a score
\* that does not parse, and with a win.
C5_Witness ==
    \E g \in DOMAIN goalie_schedule_stats :
        /\ seen.slots[g] = 2
        /\ goalie_schedule_stats[g].starts = 1
        /\ goalie_schedule_stats[g].wins = 1

WinDue(r, g) ==
    (IF ParseInt(r[5]) > ParseInt(r[7]) /\ VisitorGoalie(r) = g THEN 1 ELSE 0)
  + (IF ParseInt(r[7]) > ParseInt(r[5]) /\ HomeGoalie(r) = g THEN 1 ELSE 0)

\* C6: a completed record whose scores parse adds one win to the named goalie of the
\* side with the strictly higher score and to no other goalie.
C6_WinToStrictlyHigherSide ==
    [][(IsCompleted(row') /\ ScoresParse(row')) =>
          \A g \in GoalieNames :
              Get(goalie_schedule_stats', g, NoTally).wins
                  = Get(goalie_schedule_stats, g, NoTally).wins + WinDue(row', g)]_vars

\* C10: a completed record with a score that does not parse still counts one
\* completed game for each recognized team of the record, and leaves the whole
\* goalie tally map (its keys and every starts, wins, shutouts) as it was.
C10_UnparsedScoreKeepsCounts ==
    [][(IsCompleted(row') /\ ~ScoresParse(row')) =>
          /\ goalie_schedule_stats' = goalie_schedule_stats
          /\ team_remaining' = team_remaining
          /\ \A a \in Abbrs :
                Get(team_completed', a, 0) = Get(team_completed, a, 0) + Sides(row', a)]_vars

\* C10 witness: the second record is completed, between two recognized teams, with a
\* score that does not parse and a named visitor goalie who has no tally, while the
\* first record left a tally for another goalie.
C10_Witness ==
    /\ seen.rows = 2
    /\ IsCompleted(row) /\ ~ScoresParse(row) /\ BothRecognized(row)
    /\ VisitorGoalie(row) # ""
    /\ VisitorGoalie(row) \notin DOMAIN goalie_schedule_stats
    /\ goalie_schedule_stats # EmptyDict
    /\ SumValues(team_completed) = 4

-----------------------------------------------------------------------------
(* app.py: the session.  One step is one handler of the Roster Builder tab *)
(* followed by the script run that st.rerun() starts, which projects the   *)
(* roster again.  The "raw" field of a roster entry is never read and is   *)
(* left out.  Position "D" is left out too: every test of a position the  *)
(* code makes is `== "G"`, and the editor shows F, D and G players alike.  *)

MaxOriginal == 1
MaxRoster   == 2

Names        == {"al bo", "Bo Al", "al bu", "cy"}
Positions    == {"F", "G"}
SessionTeams == {FCHL_TEAMS[1], FCHL_TEAMS[2]}

Players == [name : Names, position : Positions, fchl_team : SessionTeams]

\* the rows of skaters.csv and goalies.csv by name
SkaterRecord(n) ==
    CASE n = "al bo" -> [name |-> n, nhl_team |-> "BOS", games_played |-> 2, goals |-> 1,
                         primary_assists |-> 1, secondary_assists |-> 0]
      [] n = "Bo Al" -> [name |-> n, nhl_team |-> "BUF", games_played |-> 4, goals |-> 2,
                         primary_assists |-> 1, secondary_assists |-> 2]
      [] n = "al bu" -> [name |-> n, nhl_team |-> "BOS", games_played |-> 0, goals |-> 0,
                         primary_assists |-> 0, secondary_assists |-> 0]
      [] n = "cy"    -> [name |-> n, nhl_team |-> "BUF", games_played |-> 0, goals |-> 0,
                         primary_assists |-> 0, secondary_assists |-> 0]

GoalieRecord(n) ==
    CASE n = "al bo" -> [name |-> n, nhl_team |-> "BOS", games_played |-> 0]
      [] n = "Bo Al" -> [name |-> n, nhl_team |-> "BUF", games_played |-> 2]
      [] n = "al bu" -> [name |-> n, nhl_team |-> "BUF", games_played |-> 0]
      [] n = "cy"    -> [name |-> n, nhl_team |-> "SEA", games_played |-> 1]

\* the statistics files drawn: which names each file lists
StatsKeys ==
    {<<{"al bo", "cy"}, {"al bo", "Bo Al"}>>,
     <<{"Bo Al", "al bu"}, {"al bu", "cy"}>>}

\* the schedule file drawn: Boston and Buffalo have played two games and have two
\* to play; no other team has a game
SessionSchedules ==
    {<<MakeRow(<<"Boston Bruins", "Buffalo Sabres">>, <<"2", "1">>, "Regulation",
               <<"al bo", "Bo Al">>),
       MakeRow(<<"Buffalo Sabres", "Boston Bruins">>, <<"1", "0">>, "Regulation",
               <<"Bo Al", "al bo">>),
       MakeRow(<<"Boston Bruins", "Buffalo Sabres">>, <<"", "">>, "Scheduled", <<"", "">>),
       MakeRow(<<"Buffalo Sabres", "Boston Bruins">>, <<"", "">>, "Scheduled", <<"", "">>)>>}

\* the roster sheets drawn: every player listed once
RosterSheets ==
    {r \in UNION {[1..n -> Players] : n \in 0..MaxOriginal} :
        \A i, j \in 1..Len(r) : i # j => r[i].name # r[j].name}

\* schedule_data = get_schedule()
schedule_data ==
    [team_completed |-> team_completed, team_remaining |-> team_remaining,
     goalie_schedule_stats |-> goalie_schedule_stats]

Init ==
    /\ \E keys \in StatsKeys :
          /\ skater_stats = [n \in keys[1] |-> SkaterRecord(n)]
          /\ goalie_stats = [n \in keys[2] |-> GoalieRecord(n)]
    /\ \E rows \in SessionSchedules :
          LET loaded == load_schedule(rows)
          IN  /\ team_completed = loaded.team_completed
              /\ team_remaining = loaded.team_remaining
              /\ goalie_schedule_stats = loaded.goalie_schedule_stats
    /\ row = <<>>
    /\ seen = NothingSeen
    /\ original_roster \in RosterSheets
    /\ roster = original_roster
    /\ player_lookup = build_player_lookup(roster, skater_stats, goalie_stats)
    /\ projections = project_all_players(roster, player_lookup, skater_stats,
                                         goalie_stats, schedule_data)
    /\ IdlePure
    /\ IdleProcess

\* st.rerun(): the next script run projects the edited roster (tabs 1 to 3)
Rerun ==
    /\ projections' = project_all_players(roster', player_lookup', skater_stats,
                                          goalie_stats, schedule_data)
    /\ UNCHANGED <<original_roster, skater_stats, goalie_stats, sched_vars, pure_vars,
                   process_vars>>

AddToLookup_Skipped(lookup, add_name) == lookup

\* st.session_state.player_lookup[add_name] = add_name
AddToLookup(lookup, add_name) == Put(lookup, add_name, add_name)

\* "Add Player": the name is picked among the stat players that are no value of the
\* lookup, the position and the team freely
AddPlayer ==
    /\ Len(roster) < MaxRoster
    /\ LET all_stat_players == DOMAIN skater_stats \cup DOMAIN goalie_stats
           matched_names    == {player_lookup[k] : k \in DOMAIN player_lookup} \ {NoneVal}
           available        == all_stat_players \ matched_names
       IN  \E add_name \in available, add_pos \in Positions, add_team \in SessionTeams :
              /\ roster' = Append(roster, [name |-> add_name, position |-> add_pos,
                                           fchl_team |-> add_team])
              /\ player_lookup' = AddToLookup(player_lookup, add_name)
    /\ Rerun

\* the first roster entry with the name and team of the player shown
FirstLike(player) ==
    CHOOSE k \in 1..Len(roster) :
        /\ roster[k].name = player.name /\ roster[k].fchl_team = player.fchl_team
        /\ \A j \in 1..(k - 1) :
              ~(roster[j].name = player.name /\ roster[j].fchl_team = player.fchl_team)

\* "Move to": a player shown under the team being edited is given another team
MovePlayer ==
    /\ \E i \in 1..Len(roster), new_team \in SessionTeams :
          /\ roster[i].position \in Positions
          /\ new_team # roster[i].fchl_team
          /\ roster' = [roster EXCEPT ![FirstLike(roster[i])].fchl_team = new_team]
    /\ UNCHANGED player_lookup
    /\ Rerun

\* "Remove": every entry with the name and team of the player shown is dropped
RemovePlayer ==
    /\ \E i \in 1..Len(roster) :
          /\ roster[i].position \in Positions
          /\ roster' = SelectSeq(roster, LAMBDA p :
                            ~(p.name = roster[i].name /\ p.fchl_team = roster[i].fchl_team))
    /\ UNCHANGED player_lookup
    /\ Rerun

\* "Reset All Rosters to Original": both session entries are deleted and the next
\* script run loads the roster sheet and builds the lookup again
ResetRosters ==
    /\ roster' = original_roster
    /\ player_lookup' = build_player_lookup(original_roster, skater_stats, goalie_stats)
    /\ Rerun

Next == AddPlayer \/ MovePlayer \/ RemovePlayer \/ ResetRosters

Spec == Init /\ [][Next]_vars

-----------------------------------------------------------------------------
(* Properties of the session *)

LookupOf(player) == Get(player_lookup, player.name, NoneVal)
PoolOf(player)   == Pool(player.position, skater_stats, goalie_stats)
Matched(player)  == LookupOf(player) # NoneVal /\ LookupOf(player) \in DOMAIN PoolOf(player)
RecordOf(player) == PoolOf(player)[LookupOf(player)]
AllZero(proj) ==
    /\ proj.proj_goals = RZero /\ proj.proj_assists = RZero /\ proj.proj_wins = RZero
    /\ proj.proj_shutouts = RZero /\ proj.proj_pts = RZero

\* C1: the lookup entry of every roster player is None or a key of the statistics
\* collection of the player's position (goalie_stats for G, skater_stats otherwise).
C1_LookupNeverDangles ==
    \A i \in 1..Len(roster) :
        \/ LookupOf(roster[i]) = NoneVal
        \/ LookupOf(roster[i]) \in DOMAIN PoolOf(roster[i])

\* C2: the projection of every roster player has found_in_stats = False exactly
\* when the lookup gave None for the player's name, and then every projected
\* number is zero.
C2_NotFoundIffNoMatch ==
    /\ Len(projections) = Len(roster)
    /\ \A i \in 1..Len(roster) :
          /\ (projections[i].found_in_stats = FALSE) <=> (LookupOf(roster[i]) = NoneVal)
          /\ projections[i].found_in_stats = FALSE => AllZero(projections[i])

\* C7 as stated: a roster player, skater or goalie, whose matched record has
\* games_played = 0 is projected with proj_pts = 0 and found_in_stats = True.
C7_ZeroGamesProjectsZero ==
    \A i \in 1..Len(roster) :
        (Matched(roster[i]) /\ RecordOf(roster[i]).games_played = 0) =>
            /\ projections[i].found_in_stats = TRUE
            /\ projections[i].proj_pts = RZero

\* C7 as amended: such a player is projected with found_in_stats = True; a skater
\* with proj_pts = 0 whatever the schedule; a goalie with proj_pts = 0 when the
\* goalie's schedule tally has no start or the goalie's team no completed game
\* (a goalie's games_played is not read).
C7_ZeroGamesSkaterProjectsZero ==
    \A i \in 1..Len(roster) :
        (Matched(roster[i]) /\ RecordOf(roster[i]).games_played = 0) =>
            /\ projections[i].found_in_stats = TRUE
            /\ roster[i].position # "G" => projections[i].proj_pts = RZero
            /\ (/\ roster[i].position = "G"
                /\ \/ GoalieTally(roster[i], LookupOf(roster[i]),
                                   goalie_schedule_stats).starts = 0
                   \/ Get(team_completed, RecordOf(roster[i]).nhl_team, 0) = 0)
               => projections[i].proj_pts = RZero

\* C7 witness: the roster holds a matched skater with no game played whose team has
\* games left, projected found with 0 points, and a matched goalie with no game
\* played in goalies.csv, projected found from the schedule tally.
C7_Witness ==
    /\ \E i \in 1..Len(roster) :
          /\ roster[i].position # "G" /\ Matched(roster[i])
          /\ RecordOf(roster[i]).games_played = 0
          /\ Get(team_remaining, RecordOf(roster[i]).nhl_team, 0) > 0
          /\ projections[i].found_in_stats = TRUE /\ projections[i].proj_pts = RZero
    /\ \E j \in 1..Len(roster) :
          /\ roster[j].position = "G" /\ Matched(roster[j])
          /\ RecordOf(roster[j]).games_played = 0
          /\ projections[j].found_in_stats = TRUE

RosterNames == {roster[i].name : i \in 1..Len(roster)}

\* C11: a step of Add Player, Move or Remove leaves every entry of the lookup as
\* it was, and the only change Add Player makes to the lookup is one new entry for
\* a name that was no key before.
C11_LookupEntriesNeverChange ==
    [][(AddPlayer \/ MovePlayer \/ RemovePlayer) =>
          /\ \A k \in DOMAIN player_lookup :
                k \in DOMAIN player_lookup' /\ player_lookup'[k] = player_lookup[k]
          /\ AddPlayer =>
                \E n \in DOMAIN player_lookup' \ DOMAIN player_lookup :
                    DOMAIN player_lookup' = DOMAIN player_lookup \cup {n}]_vars

\* C13: no player name is rostered on two different fantasy teams at once, and
\* every roster entry carries one fantasy-team id.
C13_OneTeamPerPlayer ==
    /\ \A i \in 1..Len(roster) : roster[i].fchl_team \in SessionTeams
    /\ \A i, j \in 1..Len(roster) :
          roster[i].name = roster[j].name => roster[i].fchl_team = roster[j].fchl_team

\* C16: every name in the session roster is a key of the session lookup.
C16_RosterNamesAreLookupKeys == RosterNames \subseteq DOMAIN player_lookup

\* C16 witness: after an Add and a Remove the roster holds a player the roster
\* sheet does not list, and the lookup still holds the key of a removed player.
C16_Witness ==
    /\ \E n \in RosterNames :
          /\ \A i \in 1..Len(original_roster) : original_roster[i].name # n
          /\ Get(player_lookup, n, NoneVal) = n
    /\ \E k \in DOMAIN player_lookup : k \notin RosterNames

-----------------------------------------------------------------------------
(* build_player_lookup applied to every short roster, players listed twice or *)
(* under two positions included                                               *)

InitLookup ==
    /\ pc = "input"
    /\ \E keys \in StatsKeys :
          /\ skater_stats = [n \in keys[1] |-> SkaterRecord(n)]
          /\ goalie_stats = [n \in keys[2] |-> GoalieRecord(n)]
    /\ roster \in UNION {[1..n -> Players] : n \in 0..(MaxOriginal + 1)}
    /\ original_roster = roster
    /\ player_lookup = EmptyDict
    /\ projections = <<>>
    /\ raw = <<>>
    /\ parsed = <<>>
    /\ current_pts = EmptyDict
    /\ standings = <<>>
    /\ IdleProcess
    /\ IdleSchedule

BuildLookup ==
    /\ pc = "input"
    /\ player_lookup' = build_player_lookup(roster, skater_stats, goalie_stats)
    /\ pc' = "done"
    /\ UNCHANGED <<original_roster, roster, skater_stats, goalie_stats, projections,
                   raw, parsed, current_pts, standings, sched_vars, process_vars>>

NextLookup == BuildLookup

SpecLookup == InitLookup /\ [][NextLookup]_vars

\* C3: every roster player whose name is a key of the statistics collection of the
\* player's position has lookup[name] = name, whoever else is in the roster.
C3_ExactNameMatchesItself ==
    pc = "done" =>
        \A i \in 1..Len(roster) :
            roster[i].name \in DOMAIN PoolOf(roster[i]) =>
                player_lookup[roster[i].name] = roster[i].name

-----------------------------------------------------------------------------
(* project_all_players applied to one roster player: a skater or a goalie, matched *)
(* under the roster name, under another key or not at all, with small and large    *)
(* statistics, schedule tallies under the key, under the roster name or absent,    *)
(* and a team with or without completed and remaining games                        *)

ProjectedName  == "al bo"
ProjectedKeys  == {"al bo", "Bo Al", NoneVal}
ProjectedTeam  == "BOS"

GamesChoices == {0, 2, 20}
GoalChoices  == {0, 10}

\* a tally of load_schedule: starts >= 1, wins <= starts, shutouts <= starts
TallyChoices ==
    {[starts |-> 1, wins |-> 1, shutouts |-> 1], [starts |-> 2, wins |-> 1, shutouts |-> 0],
     [starts |-> 20, wins |-> 12, shutouts |-> 2]}

\* the tally maps: an entry under each of the two names, or none
TallyMaps ==
    UNION {[K -> TallyChoices] : K \in SUBSET (ProjectedKeys \ {NoneVal})}

\* the game counts of the player's NHL team: no entry, or a positive count
CompletedChoices == {EmptyDict} \cup {[t \in {ProjectedTeam} |-> c] : c \in {2, 25}}
RemainingChoices == {EmptyDict} \cup {[t \in {ProjectedTeam} |-> c] : c \in {10, 15}}

InitProject ==
    /\ pc = "input"
    /\ \E pos \in Positions :
          roster = <<[name |-> ProjectedName, position |-> pos, fchl_team |-> FCHL_TEAMS[1]]>>
    /\ original_roster = roster
    /\ \E key \in ProjectedKeys, gp \in GamesChoices, goals \in GoalChoices :
          LET keys == {key} \ {NoneVal}
          IN  /\ player_lookup = [n \in {ProjectedName} |-> key]
              /\ skater_stats = [n \in keys |->
                                   [name |-> n, nhl_team |-> ProjectedTeam,
                                    games_played |-> gp, goals |-> goals,
                                    primary_assists |-> 5, secondary_assists |-> 3]]
              /\ goalie_stats = [n \in keys |->
                                   [name |-> n, nhl_team |-> ProjectedTeam,
                                    games_played |-> gp]]
    /\ goalie_schedule_stats \in TallyMaps
    /\ team_completed \in CompletedChoices
    /\ team_remaining \in RemainingChoices
    /\ row = <<>>
    /\ seen = NothingSeen
    /\ projections = <<>>
    /\ raw = <<>>
    /\ parsed = <<>>
    /\ current_pts = EmptyDict
    /\ standings = <<>>
    /\ IdleProcess

ProjectPlayers ==
    /\ pc = "input"
    /\ projections' = project_all_players(roster, player_lookup, skater_stats,
                                          goalie_stats, schedule_data)
    /\ pc' = "done"
    /\ UNCHANGED <<original_roster, roster, player_lookup, skater_stats, goalie_stats,
                   raw, parsed, current_pts, standings, sched_vars, process_vars>>

NextProject == ProjectPlayers

SpecProject == InitProject /\ [][NextProject]_vars

\* the inputs of the one projection, read off the state
TheKey       == player_lookup[ProjectedName]
IsGoalie     == roster[1].position = "G"
HasRecord    == TheKey # NoneVal
HasTally     == HasRecord /\ (TheKey \in DOMAIN goalie_schedule_stats
                               \/ ProjectedName \in DOMAIN goalie_schedule_stats)
TheTally     == IF TheKey \in DOMAIN goalie_schedule_stats
                THEN goalie_schedule_stats[TheKey]
                ELSE goalie_schedule_stats[ProjectedName]
Completed    == IF ProjectedTeam \in DOMAIN team_completed
                THEN team_completed[ProjectedTeam] ELSE 0
Remaining    == IF ProjectedTeam \in DOMAIN team_remaining
                THEN team_remaining[ProjectedTeam] ELSE 0
\* the fraction q equals n / d
Equals(q, n, d) == q[2] > 0 /\ q[1] * d = n * q[2]

\* C14: a matched goalie whose tally (under the matched key, else under the roster
\* name) has starts > 0 and whose team has completed games is projected with
\* proj_wins = (wins/starts) * remaining_starts, proj_shutouts = (shutouts/starts) *
\* remaining_starts and proj_pts = 2 * proj_wins + 3 * proj_shutouts, where
\* remaining_starts = (starts/team_completed) * team_remaining; 20 starts, 12 wins,
\* 2 shutouts, 25 completed and 15 remaining give 7.2, 1.2 and 18.
C14_GoalieProjectionFormula ==
    (pc = "done" /\ IsGoalie /\ HasTally /\ Completed > 0) =>
        LET p  == projections[1]
            t  == TheTally
            pw == p.proj_wins
            ps == p.proj_shutouts
        IN  /\ p.found_in_stats = TRUE
            /\ Equals(pw, t.wins * t.starts * Remaining, t.starts * Completed)
            /\ Equals(ps, t.shutouts * t.starts * Remaining,
                          t.starts * Completed)
            /\ Equals(p.proj_pts, 2 * pw[1] * ps[2] + 3 * ps[1] * pw[2], pw[2] * ps[2])
            /\ (t = [starts |-> 20, wins |-> 12, shutouts |-> 2]
                    /\ Completed = 25 /\ Remaining = 15)
               => (pw = <<36, 5>> /\ ps = <<6, 5>> /\ p.proj_pts = <<18, 1>>)

\* C14 witness: the goalie of the example, matched under a key that has no tally
\* while the roster name has one, projected with 18 points.
C14_Witness ==
    /\ pc = "done" /\ IsGoalie /\ HasRecord
    /\ TheKey # ProjectedName
    /\ TheKey \notin DOMAIN goalie_schedule_stats
    /\ ProjectedName \in DOMAIN goalie_schedule_stats
    /\ goalie_schedule_stats[ProjectedName] = [starts |-> 20, wins |-> 12, shutouts |-> 2]
    /\ Completed = 25 /\ Remaining = 15
    /\ projections[1].proj_pts = <<18, 1>>

Raised(p) ==
    ZeroDivisionError \in {p.proj_goals, p.proj_assists, p.proj_wins, p.proj_shutouts,
                           p.proj_pts}

\* C15: no projection raises a division error, and a matched player with a zero
\* denominator (a skater with no game played; a goalie with no start or whose team
\* has no completed game) is projected with every numeric field zero.
C15_NoDivisionByZero ==
    pc = "done" =>
        LET p == projections[1]
        IN  /\ ~Raised(p)
            /\ (HasRecord /\ ~IsGoalie /\ skater_stats[TheKey].games_played = 0)
                  => AllZero(p) /\ p.found_in_stats = TRUE
            /\ (HasRecord /\ IsGoalie /\ (~HasTally \/ Completed = 0))
                  => AllZero(p) /\ p.found_in_stats = TRUE

\* C15 witness: a matched goalie with starts in the schedule whose team has no
\* completed game, projected found with every numeric field zero.
C15_Witness ==
    /\ pc = "done" /\ IsGoalie /\ HasTally
    /\ TheTally.starts > 0 /\ Completed = 0 /\ Remaining > 0
    /\ AllZero(projections[1]) /\ projections[1].found_in_stats = TRUE

-----------------------------------------------------------------------------
(* parse_player_name applied to every short string over four characters *)

MaxRaw == 5

Chars == {" ", "A", "a", "7"}

RawStrings == UNION {[1..n -> Chars] : n \in 0..MaxRaw}

InitParse ==
    /\ pc = "input"
    /\ raw \in RawStrings
    /\ parsed = <<>>
    /\ current_pts = EmptyDict
    /\ standings = <<>>
    /\ IdleProcess
    /\ IdleSchedule
    /\ IdleSession

ParseName ==
    /\ pc = "input"
    /\ parsed' = parse_player_name(raw)
    /\ pc' = "done"
    /\ UNCHANGED <<raw, current_pts, standings, sched_vars, session_vars, process_vars>>

NextParse == ParseName

SpecParse == InitParse /\ [][NextParse]_vars

\* the whitespace-delimited tokens of a string, read off its characters: token k
\* runs from the k-th position that starts a run of non-blanks to the end of the run
TokenStarts(s) ==
    {i \in 1..Len(s) : ~IsSpace(s[i]) /\ (i = 1 \/ IsSpace(s[i - 1]))}
TokenEnd(s, i) ==
    CHOOSE j \in i..Len(s) :
        /\ \A k \in i..j : ~IsSpace(s[k])
        /\ (j = Len(s) \/ IsSpace(s[j + 1]))
NthStart(s, n) ==
    CHOOSE i \in TokenStarts(s) : Cardinality({j \in TokenStarts(s) : j <= i}) = n
Token(s, n) == SubSeq(s, NthStart(s, n), TokenEnd(s, NthStart(s, n)))
NumTokens(s) == Cardinality(TokenStarts(s))

RECURSIVE SumLens(_, _, _)
\* the total length of tokens from..to of s
SumLens(s, from, to) ==
    IF from > to THEN 0 ELSE Len(Token(s, from)) + SumLens(s, from + 1, to)

AllDigits(t)   == Len(t) > 0 /\ \A i \in 1..Len(t) : t[i] = "7"
OneCapital(t)  == t = <<"A">>

\* C8: the position is the first token; the name is the remaining tokens joined by
\* single blanks, without the last token if and only if that token is all digits or
\* one uppercase letter and a name token remains without it; with fewer than two
\* tokens the position is empty and the name is the whole string.
C8_ParsePlayerName ==
    pc = "done" =>
        LET n == NumTokens(raw)
            strip == (AllDigits(Token(raw, n)) \/ OneCapital(Token(raw, n))) /\ n - 2 >= 1
            last == IF strip THEN n - 1 ELSE n
        IN  IF n < 2
            THEN parsed = << <<>>, raw >>
            ELSE /\ parsed[1] = Token(raw, 1)
                 /\ NumTokens(parsed[2]) = last - 1
                 /\ \A k \in 1..(last - 1) : Token(parsed[2], k) = Token(raw, k + 1)
                 /\ Len(parsed[2]) = (last - 2)
                       + SumLens(raw, 2, last)

\* C8 witness: "A a 7" has been parsed to ("A", "a"), the trailing number stripped.
C8_Witness ==
    /\ pc = "done"
    /\ raw = <<"A", " ", "a", " ", "7">>
    /\ parsed = << <<"A">>, <<"a">> >>

-----------------------------------------------------------------------------
(* compute_standings applied to short projection lists and small baselines *)

MaxProjections == 2

StandingTeams == {"BOT", "GVR", "LPT"}
PointChoices  == {<<0, 1>>, <<1, 2>>, <<2, 1>>}
BaselineChoices == {0, 1}

ProjectionLists ==
    UNION {[1..n -> [fchl_team : StandingTeams, proj_pts : PointChoices]] :
               n \in 0..MaxProjections}

Baselines == UNION {[K -> BaselineChoices] : K \in SUBSET StandingTeams}

InitStandings ==
    /\ pc = "input"
    /\ projections \in ProjectionLists
    /\ current_pts \in Baselines
    /\ standings = <<>>
    /\ IdleProcess
    /\ raw = <<>>
    /\ parsed = <<>>
    /\ original_roster = <<>>
    /\ roster = <<>>
    /\ player_lookup = EmptyDict
    /\ skater_stats = EmptyDict
    /\ goalie_stats = EmptyDict
    /\ IdleSchedule

ComputeStandings ==
    /\ pc = "input"
    /\ \E order \in IterationOrders(all_teams(projections, current_pts)) :
           standings' = compute_standings(projections, current_pts, order)
    /\ pc' = "done"
    /\ UNCHANGED <<raw, parsed, current_pts, sched_vars, session_vars, process_vars>>

NextStandings == ComputeStandings

SpecStandings == InitStandings /\ [][NextStandings]_vars

RECURSIVE PointsOf(_, _)
\* the sum of proj_pts over the projections of one fantasy team
PointsOf(projs, team) ==
    IF projs = <<>> THEN RZero
    ELSE LET rest == PointsOf(Tail(projs), team)
         IN  IF Head(projs).fchl_team = team THEN RAdd(Head(projs).proj_pts, rest)
             ELSE rest

ProjectedTeams == {projections[i].fchl_team : i \in 1..Len(projections)}

\* C9: the standings hold exactly one entry for each team of the projections or of
\* the baseline, with the team's baseline (0 without one), the sum of its projected
\* points (0 without players), their sum as total, in non-increasing order of total.
C9_StandingsPerTeamSortedDesc ==
    pc = "done" =>
        /\ \A t \in ProjectedTeams \cup DOMAIN current_pts :
              Cardinality({i \in 1..Len(standings) : standings[i].fchl_team = t}) = 1
        /\ \A i \in 1..Len(standings) :
              LET e == standings[i]
              IN  /\ e.fchl_team \in ProjectedTeams \cup DOMAIN current_pts
                  /\ e.current_pts = Get(current_pts, e.fchl_team, 0)
                  /\ e.proj_remaining = PointsOf(projections, e.fchl_team)
                  /\ e.proj_total[1] * e.proj_remaining[2]
                        = (e.current_pts * e.proj_remaining[2] + e.proj_remaining[1])
                          * e.proj_total[2]
        /\ \A i \in 1..Len(standings) : \A j \in 1..Len(standings) :
              i < j => RLeq(standings[j].proj_total, standings[i].proj_total)

\* C9 witness: three teams ranked, one with no player (only its baseline), one with
\* players and no baseline, and the first strictly ahead of the last.
C9_Witness ==
    /\ pc = "done"
    /\ Len(standings) = 3
    /\ \E t \in DOMAIN current_pts : t \notin ProjectedTeams
    /\ \E t \in ProjectedTeams : t \notin DOMAIN current_pts
    /\ RLess(standings[3].proj_total, standings[1].proj_total)

-----------------------------------------------------------------------------
(* The projection pass of a script run (project_all_players, then              *)
(* compute_standings), run twice on the same files.  A set of str is iterated  *)
(* in an order fixed by the string hashing of the interpreter process, which   *)
(* is seeded when the process starts: the two passes run in one process, or    *)
(* the server is started again in between on the same files.                   *)

\* the iteration orders a process can have: every order of the team ids
SetOrders ==
    {o \in [1..Cardinality(StandingTeams) -> StandingTeams] :
        \A i, j \in DOMAIN o : i # j => o[i] # o[j]}

\* `for team in all_teams` in this process
IterationOrder(S) == SelectSeq(set_order, LAMBDA t : t \in S)

\* the sidebar gives every team a baseline
PassBaselines == [StandingTeams -> BaselineChoices]

InitPass ==
    /\ pc = "input"
    /\ \E keys \in StatsKeys :
          /\ skater_stats = [n \in keys[1] |-> SkaterRecord(n)]
          /\ goalie_stats = [n \in keys[2] |-> GoalieRecord(n)]
    /\ \E rows \in SessionSchedules :
          LET loaded == load_schedule(rows)
          IN  /\ team_completed = loaded.team_completed
              /\ team_remaining = loaded.team_remaining
              /\ goalie_schedule_stats = loaded.goalie_schedule_stats
    /\ row = <<>>
    /\ seen = NothingSeen
    /\ original_roster \in RosterSheets
    /\ roster = original_roster
    /\ player_lookup = build_player_lookup(roster, skater_stats, goalie_stats)
    /\ current_pts \in PassBaselines
    /\ projections = <<>>
    /\ standings = <<>>
    /\ raw = <<>>
    /\ parsed = <<>>
    /\ set_order \in SetOrders
    /\ previous = <<>>

\* tab 1 of a script run: the projections, then the standings
RunPass ==
    /\ pc \in {"input", "once", "restarted"}
    /\ LET projs == project_all_players(roster, player_lookup, skater_stats,
                                        goalie_stats, schedule_data)
       IN  /\ projections' = projs
           /\ standings' = compute_standings(projs, current_pts,
                                IterationOrder(all_teams(projs, current_pts)))
    /\ previous' = IF pc = "input" THEN <<>>
                   ELSE [projections |-> projections, standings |-> standings,
                         set_order |-> IF pc = "once" THEN set_order
                                       ELSE previous.set_order]
    /\ pc' = IF pc = "input" THEN "once" ELSE "twice"
    /\ UNCHANGED <<original_roster, roster, player_lookup, skater_stats, goalie_stats,
                   raw, parsed, current_pts, set_order, sched_vars>>

\* the server is started again on the same files: the new process has its own
\* hash seed; the roster and the lookup are built again from the same roster sheet
RestartProcess ==
    /\ pc = "once"
    /\ \E o \in SetOrders : set_order' = o
    /\ previous' = [set_order |-> set_order]
    /\ pc' = "restarted"
    /\ UNCHANGED <<session_vars, raw, parsed, current_pts, standings, sched_vars>>

NextPass == RunPass \/ RestartProcess

SpecPass == InitPass /\ [][NextPass]_vars

====
